---------------------------- MODULE Spec2Model ----------------------------
(***************************************************************************)
(* Model of the catalog build of anymcp-io:                                *)
(*   src/_data/servers.js       (scan of mcp/, front-matter parsing)       *)
(*   src/_data/serversArray.js  (flattening of the mapping to a list)      *)
(* Text is a sequence of one-character strings; "\n" is the line break.    *)
(***************************************************************************)
EXTENDS Integers, Sequences, FiniteSets, TLC

(***************************************************************************)
(* Bounds of the model.                                                    *)
(***************************************************************************)
MaxFiles == 2      \* directory entries of a build
MaxMeta  == 2      \* front-matter lines of a generated file
MaxBody  == 2      \* body lines of a generated file
MaxDay   == 1      \* the clock runs over days 0..MaxDay
MaxChunks == 4     \* pieces of a text given to the entity decoder
MaxSpan  == 4      \* lines of a text given to the front-matter scan alone
MaxGap   == 9      \* lines between a tool attribute and the next declaration

(***************************************************************************)
(* JavaScript string primitives used by servers.js.                        *)
(***************************************************************************)
NL == "\n"

WhiteSpace == {" ", "\t", "\r", "\n"}

Digits == <<"0", "1", "2", "3", "4", "5", "6", "7", "8", "9">>

IsDigit(c) == \E k \in 1..10 : Digits[k] = c

DigitVal(c) == (CHOOSE k \in 1..10 : Digits[k] = c) - 1

\* String.prototype.startsWith
StartsWith(s, p) == Len(s) >= Len(p) /\ SubSeq(s, 1, Len(p)) = p

\* String.prototype.substring(k) (k is 0-based)
Substring(s, k) == SubSeq(s, k + 1, Len(s))

RECURSIVE TrimStart(_)
TrimStart(s) ==
  IF s # <<>> /\ Head(s) \in WhiteSpace THEN TrimStart(Tail(s)) ELSE s

RECURSIVE TrimEnd(_)
TrimEnd(s) ==
  IF s # <<>> /\ s[Len(s)] \in WhiteSpace
    THEN TrimEnd(SubSeq(s, 1, Len(s) - 1))
    ELSE s

\* String.prototype.trim
Trim(s) == TrimEnd(TrimStart(s))

\* the position of the first line break of s, 0 when there is none
FirstBreak(s) ==
  IF \E i \in 1..Len(s) : s[i] = NL
    THEN CHOOSE i \in 1..Len(s) : s[i] = NL /\ \A j \in 1..(i - 1) : s[j] # NL
    ELSE 0

\* String.prototype.split('\n'): always at least one piece
RECURSIVE Split(_)
Split(s) ==
  IF FirstBreak(s) = 0 THEN <<s>>
  ELSE <<SubSeq(s, 1, FirstBreak(s) - 1)>> \o Split(SubSeq(s, FirstBreak(s) + 1, Len(s)))

\* Array.prototype.join('\n')
RECURSIVE Join(_)
Join(ls) ==
  IF ls = <<>> THEN <<>>
  ELSE IF Len(ls) = 1 THEN ls[1]
  ELSE ls[1] \o <<NL>> \o Join(Tail(ls))

\* Array.prototype.slice(k) (k is 0-based)
Slice(ls, k) == SubSeq(ls, k + 1, Len(ls))

\* a plausible slip: replace without the g flag (first match only)
RECURSIVE ReplaceFirst(_, _, _)
ReplaceFirst(s, pat, rep) ==
  IF s = <<>> THEN <<>>
  ELSE IF StartsWith(s, pat) THEN rep \o Substring(s, Len(pat))
  ELSE <<Head(s)>> \o ReplaceFirst(Tail(s), pat, rep)

\* String.prototype.replace(/pat/g, rep): leftmost, non-overlapping matches
RECURSIVE ReplaceAll(_, _, _)
ReplaceAll(s, pat, rep) ==
  IF s = <<>> THEN <<>>
  ELSE IF StartsWith(s, pat) THEN rep \o ReplaceAll(Substring(s, Len(pat)), pat, rep)
  ELSE <<Head(s)>> \o ReplaceAll(Tail(s), pat, rep)

\* String.prototype.includes
RECURSIVE Includes(_, _)
Includes(s, pat) ==
  IF Len(s) < Len(pat) THEN FALSE
  ELSE StartsWith(s, pat) \/ Includes(Tail(s), pat)

(***************************************************************************)
(* extractCodeWithoutFrontMatter (servers.js)                              *)
(***************************************************************************)
Sentinel == <<"/", "/", " ", "-", "-", "-">>

EntQuot == <<"&", "q", "u", "o", "t", ";">>
EntApos == <<"&", "#", "3", "9", ";">>
EntLt   == <<"&", "l", "t", ";">>
EntGt   == <<"&", "g", "t", ";">>
EntAmp  == <<"&", "a", "m", "p", ";">>

\* a plausible slip: &amp; replaced first
DecodeEntitiesAmpFirst(code) ==
  ReplaceAll(ReplaceAll(ReplaceAll(ReplaceAll(ReplaceAll(code,
    EntAmp, <<"&">>), EntQuot, <<"\"">>), EntApos, <<"'">>), EntLt, <<"<">>),
    EntGt, <<">">>)

\* the five ordered replacements, &amp; last
DecodeEntities(code) ==
  ReplaceAll(ReplaceAll(ReplaceAll(ReplaceAll(ReplaceAll(code,
    EntQuot, <<"\"">>), EntApos, <<"'">>), EntLt, <<"<">>), EntGt, <<">">>),
    EntAmp, <<"&">>)

\* a plausible slip: the scan stops at the first sentinel line
RECURSIVE FindFirstSentinel(_, _, _)
FindFirstSentinel(lines, i, startFound) ==
  IF i >= Len(lines) THEN -1
  ELSE IF Trim(lines[i + 1]) = Sentinel THEN i
  ELSE FindFirstSentinel(lines, i + 1, startFound)

\* the loop of lines 162-173: state <<frontMatterEndIndex, frontMatterStartFound>>
RECURSIVE FindFrontMatterEnd(_, _, _)
FindFrontMatterEnd(lines, i, startFound) ==
  IF i >= Len(lines) THEN -1
  ELSE IF Trim(lines[i + 1]) = Sentinel
    THEN IF ~startFound THEN FindFrontMatterEnd(lines, i + 1, TRUE) ELSE i
    ELSE FindFrontMatterEnd(lines, i + 1, startFound)

\* a plausible slip: the two trim() calls left out
StrippedCodeNoTrim(contents) ==
  IF FindFrontMatterEnd(Split(contents), 0, FALSE) >= 0
    THEN Join(Slice(Split(contents), FindFrontMatterEnd(Split(contents), 0, FALSE) + 1))
    ELSE contents

\* the text that is entity-decoded: lines 175-182
StrippedCode(contents) ==
  LET lines == Split(contents)
      frontMatterEndIndex == FindFrontMatterEnd(lines, 0, FALSE)
  IN  IF frontMatterEndIndex >= 0
        THEN Trim(Join(Slice(lines, frontMatterEndIndex + 1)))
        ELSE Trim(contents)

extractCodeWithoutFrontMatter(contents) == DecodeEntities(StrippedCode(contents))

(***************************************************************************)
(* JavaScript values.  One record shape for every value:                   *)
(*   t: the type tag, s: the characters of a string, n: the number (or     *)
(*   1/0 for a boolean), items: the elements of an array.                  *)
(***************************************************************************)
Undefined == [t |-> "undefined", s |-> <<>>, n |-> 0, items |-> <<>>]
Null      == [t |-> "null", s |-> <<>>, n |-> 0, items |-> <<>>]
Str(cs)   == [t |-> "string", s |-> cs, n |-> 0, items |-> <<>>]
Num(k)    == [t |-> "number", s |-> <<>>, n |-> k, items |-> <<>>]
Bool(b)   == [t |-> "boolean", s |-> <<>>, n |-> IF b THEN 1 ELSE 0, items |-> <<>>]
Arr(vs)   == [t |-> "array", s |-> <<>>, n |-> 0, items |-> vs]

\* ToBoolean
Truthy(v) ==
  CASE v.t = "undefined" -> FALSE
    [] v.t = "null"      -> FALSE
    [] v.t = "string"    -> v.s # <<>>
    [] v.t = "number"    -> v.n # 0
    [] v.t = "boolean"   -> v.n = 1
    [] OTHER             -> TRUE

\* a plausible slip: a ?? b
NullishOr(a, b) == IF a.t \in {"undefined", "null"} THEN b ELSE a

\* a || b
Or(a, b) == IF Truthy(a) THEN a ELSE b

\* Array.isArray
IsArray(v) == v.t = "array"

\* Number::toString for the non-negative integers of the model
RECURSIVE NumToString(_)
NumToString(k) ==
  IF k < 10 THEN <<Digits[k + 1]>>
  ELSE NumToString(k \div 10) \o <<Digits[(k % 10) + 1]>>

RECURSIVE JoinComma(_)
\* JSToString of a value (Array.prototype.toString joins with ",")
RECURSIVE JSToString(_)
JSToString(v) ==
  CASE v.t = "string"    -> v.s
    [] v.t = "number"    -> NumToString(v.n)
    [] v.t = "boolean"   -> IF v.n = 1 THEN <<"t", "r", "u", "e">>
                                       ELSE <<"f", "a", "l", "s", "e">>
    [] v.t = "null"      -> <<"n", "u", "l", "l">>
    [] v.t = "undefined" -> <<"u", "n", "d", "e", "f", "i", "n", "e", "d">>
    [] OTHER             -> JoinComma(v.items)

JoinComma(vs) ==
  IF vs = <<>> THEN <<>>
  ELSE IF Len(vs) = 1 THEN JSToString(vs[1])
  ELSE JSToString(vs[1]) \o <<",">> \o JoinComma(Tail(vs))

\* ToPropertyKey: the key under which servers[server.id] stores
ToPropertyKey(v) == JSToString(v)

(***************************************************************************)
(* A JavaScript object used as a mapping (const servers = {}):             *)
(* keys in creation order, vals[i] the value of keys[i].                   *)
(***************************************************************************)
EmptyObject == [keys |-> <<>>, vals |-> <<>>]

HasKey(o, k) == \E i \in 1..Len(o.keys) : o.keys[i] = k

KeyIndex(o, k) == CHOOSE i \in 1..Len(o.keys) : o.keys[i] = k

\* o[k] = v: an existing key keeps its place, a new key is created last
SetProperty(o, k, v) ==
  IF HasKey(o, k)
    THEN [o EXCEPT !.vals[KeyIndex(o, k)] = v]
    ELSE [keys |-> Append(o.keys, k), vals |-> Append(o.vals, v)]

GetProperty(o, k) == o.vals[KeyIndex(o, k)]

\* an integer index key: the canonical decimal string of a non-negative integer
IsArrayIndex(k) ==
  /\ k # <<>>
  /\ \A i \in 1..Len(k) : IsDigit(k[i])
  /\ (Len(k) > 1 => k[1] # "0")

RECURSIVE IndexValue(_)
IndexValue(k) ==
  IF k = <<>> THEN 0
  ELSE 10 * IndexValue(SubSeq(k, 1, Len(k) - 1)) + DigitVal(k[Len(k)])

\* the positions of o.keys whose keys satisfy Test, in the given order
RECURSIVE SelectIndexKeys(_, _)
SelectIndexKeys(ks, wantIndex) ==
  IF ks = <<>> THEN <<>>
  ELSE IF IsArrayIndex(Head(ks)) = wantIndex
    THEN <<Head(ks)>> \o SelectIndexKeys(Tail(ks), wantIndex)
    ELSE SelectIndexKeys(Tail(ks), wantIndex)

RECURSIVE SortIndexKeys(_)
SortIndexKeys(ks) ==
  IF ks = <<>> THEN <<>>
  ELSE LET m == CHOOSE i \in 1..Len(ks) :
                  \A j \in 1..Len(ks) : IndexValue(ks[i]) <= IndexValue(ks[j])
       IN  <<ks[m]>> \o SortIndexKeys(SubSeq(ks, 1, m - 1) \o SubSeq(ks, m + 1, Len(ks)))

\* OrdinaryOwnPropertyKeys: integer indices ascending, then strings in creation order
OwnKeys(o) ==
  SortIndexKeys(SelectIndexKeys(o.keys, TRUE)) \o SelectIndexKeys(o.keys, FALSE)

(***************************************************************************)
(* parseYaml of the 'yaml' package, on the block-mapping subset the        *)
(* catalog's front matter uses: "key: scalar", "key: [a, b]", and "key:"   *)
(* followed by "- item" lines.  A document is                              *)
(*   [kind |-> "map", keys, vals], [kind |-> "null"] (no content) or       *)
(*   [kind |-> "other"] (a bare scalar); ok = FALSE when parseYaml throws. *)
(***************************************************************************)
RECURSIVE Indent(_)
Indent(l) == IF l # <<>> /\ Head(l) = " " THEN 1 + Indent(Tail(l)) ELSE 0

IsBlank(l) == Trim(l) = <<>> \/ Head(Trim(l)) = "#"

\* position of the ':' that ends a key (followed by a space or the end), 0 if none
RECURSIVE ColonAt(_, _)
ColonAt(b, p) ==
  IF p > Len(b) THEN 0
  ELSE IF b[p] = ":" /\ (p = Len(b) \/ b[p + 1] = " ") THEN p
  ELSE ColonAt(b, p + 1)

IsItem(l) == LET b == TrimStart(l) IN b = <<"-">> \/ StartsWith(b, <<"-", " ">>)

\* core schema: null, booleans, decimal integers, else a string
ResolvePlain(vt) ==
  IF vt = <<>> \/ vt = <<"~">> \/ vt = <<"n", "u", "l", "l">> THEN Null
  ELSE IF vt = <<"t", "r", "u", "e">> THEN Bool(TRUE)
  ELSE IF vt = <<"f", "a", "l", "s", "e">> THEN Bool(FALSE)
  ELSE IF \A i \in 1..Len(vt) : IsDigit(vt[i]) THEN Num(IndexValue(vt))
  ELSE Str(vt)

RECURSIVE SplitComma(_, _)
SplitComma(s, cur) ==
  IF s = <<>> THEN <<cur>>
  ELSE IF Head(s) = "," THEN <<cur>> \o SplitComma(Tail(s), <<>>)
  ELSE SplitComma(Tail(s), Append(cur, Head(s)))

\* a scalar, a double-quoted string or a flow sequence on one line
ParseScalar(vt) ==
  IF Head(vt) = "["
    THEN IF vt[Len(vt)] # "]" THEN [ok |-> FALSE, v |-> Undefined]
         ELSE LET inner == Trim(SubSeq(vt, 2, Len(vt) - 1))
                  parts == SplitComma(inner, <<>>)
              IN  IF inner = <<>> THEN [ok |-> TRUE, v |-> Arr(<<>>)]
                  ELSE [ok |-> TRUE,
                        v |-> Arr([i \in 1..Len(parts) |-> ResolvePlain(Trim(parts[i]))])]
  ELSE IF Head(vt) = "\""
    THEN IF Len(vt) >= 2 /\ vt[Len(vt)] = "\""
           THEN [ok |-> TRUE, v |-> Str(SubSeq(vt, 2, Len(vt) - 1))]
           ELSE [ok |-> FALSE, v |-> Undefined]
  ELSE [ok |-> TRUE, v |-> ResolvePlain(vt)]

\* the "- item" lines (and blank lines) that follow line i; stops at the first other line
RECURSIVE ItemLines(_, _)
ItemLines(lines, i) ==
  IF i > Len(lines) THEN <<>>
  ELSE IF IsBlank(lines[i]) THEN <<i>> \o ItemLines(lines, i + 1)
  ELSE IF IsItem(lines[i]) THEN <<i>> \o ItemLines(lines, i + 1)
  ELSE <<>>

RECURSIVE ParseEntries(_, _, _)
ParseEntries(lines, i, top) ==
  IF i > Len(lines) THEN [ok |-> TRUE, keys |-> <<>>, vals |-> <<>>]
  ELSE IF IsBlank(lines[i]) THEN ParseEntries(lines, i + 1, top)
  ELSE
    LET b == Trim(lines[i])
        p == ColonAt(b, 1)
        key == Trim(SubSeq(b, 1, p - 1))
        vt == Trim(SubSeq(b, p + 1, Len(b)))
        block == ItemLines(lines, i + 1)
        its == SelectSeq(block, LAMBDA j : ~IsBlank(lines[j]))
        itemVal(j) == ParseScalar(Trim(Substring(TrimStart(lines[j]), 1)))
        here == IF vt # <<>> THEN ParseScalar(vt)
                ELSE IF its = <<>> THEN [ok |-> TRUE, v |-> Null]
                ELSE IF \E k \in 1..Len(its) :
                          \/ Indent(lines[its[k]]) # Indent(lines[its[1]])
                          \/ Indent(lines[its[k]]) < top
                          \/ Trim(Substring(TrimStart(lines[its[k]]), 1)) = <<>>
                          \/ ~itemVal(its[k]).ok
                       THEN [ok |-> FALSE, v |-> Undefined]
                ELSE [ok |-> TRUE, v |-> Arr([k \in 1..Len(its) |-> itemVal(its[k]).v])]
        next == IF vt # <<>> THEN i + 1 ELSE i + 1 + Len(block)
        rest == ParseEntries(lines, next, top)
    IN  IF Indent(lines[i]) # top \/ p <= 1 \/ ~here.ok \/ ~rest.ok
             \/ (\E k \in 1..Len(rest.keys) : rest.keys[k] = key)
          THEN [ok |-> FALSE, keys |-> <<>>, vals |-> <<>>]
          ELSE [ok |-> TRUE, keys |-> <<key>> \o rest.keys, vals |-> <<here.v>> \o rest.vals]

ParseYaml(text) ==
  LET lines == Split(text)
      content == SelectSeq([i \in 1..Len(lines) |-> i], LAMBDA i : ~IsBlank(lines[i]))
  IN  IF content = <<>> THEN [ok |-> TRUE, kind |-> "null", keys |-> <<>>, vals |-> <<>>]
      ELSE IF Len(content) = 1 /\ ColonAt(Trim(lines[content[1]]), 1) = 0
                /\ ~IsItem(lines[content[1]])
                /\ ParseScalar(Trim(lines[content[1]])).ok
                /\ ParseScalar(Trim(lines[content[1]])).v.t # "null"
        THEN [ok |-> TRUE, kind |-> "other", keys |-> <<>>, vals |-> <<>>]
      ELSE LET m == ParseEntries(lines, 1, Indent(lines[content[1]]))
           IN  [ok |-> m.ok, kind |-> "map", keys |-> m.keys, vals |-> m.vals]

EmptyMetadata == [kind |-> "map", keys |-> <<>>, vals |-> <<>>]

\* metadata.<key>: undefined unless the document is a mapping that has the key
Member(metadata, key) ==
  IF metadata.kind = "map" /\ \E i \in 1..Len(metadata.keys) : metadata.keys[i] = key
    THEN metadata.vals[CHOOSE i \in 1..Len(metadata.keys) : metadata.keys[i] = key]
    ELSE Undefined

HasMember(metadata, key) ==
  metadata.kind = "map" /\ \E i \in 1..Len(metadata.keys) : metadata.keys[i] = key

(***************************************************************************)
(* parseCSharpMcpServer (servers.js)                                       *)
(***************************************************************************)
Slashes == <<"/", "/">>

\* a plausible slip: every remainder is trimmed
StripCommentPrefixTrimmed(line) == Trim(Substring(line, 2))

\* lines 62-72: the emitted YAML line of a candidate line (line is trimmed)
StripCommentPrefix(line) ==
  LET yamlLine == Substring(line, 2)
  IN  IF StartsWith(yamlLine, <<" ">>) THEN yamlLine
      ELSE IF Trim(yamlLine) # <<>> THEN Trim(yamlLine)
      ELSE <<>>

\* lines 50-74
RECURSIVE FrontMatterLines(_, _, _)
FrontMatterLines(lines, i, inFrontMatter) ==
  IF i >= Len(lines) THEN <<>>
  ELSE LET line == Trim(lines[i + 1])
       IN  IF line = Sentinel
             THEN IF ~inFrontMatter THEN FrontMatterLines(lines, i + 1, TRUE) ELSE <<>>
           ELSE IF inFrontMatter /\ StartsWith(line, Slashes)
             THEN <<StripCommentPrefix(line)>> \o FrontMatterLines(lines, i + 1, inFrontMatter)
           ELSE FrontMatterLines(lines, i + 1, inFrontMatter)

\* lines 76-86; failed = the catch branch ran
DecodeFrontMatter(contents) ==
  LET frontMatterLines == FrontMatterLines(Split(contents), 0, FALSE)
      doc == ParseYaml(Join(frontMatterLines))
  IN  IF frontMatterLines = <<>> THEN [failed |-> FALSE, metadata |-> EmptyMetadata]
      ELSE IF ~doc.ok THEN [failed |-> TRUE, metadata |-> EmptyMetadata]
      ELSE IF doc.kind = "null" THEN [failed |-> FALSE, metadata |-> EmptyMetadata]
      ELSE [failed |-> FALSE,
            metadata |-> [kind |-> doc.kind, keys |-> doc.keys, vals |-> doc.vals]]

\* the property names read from metadata (lines 99-111)
K_id == <<"i", "d">>
K_name == <<"n", "a", "m", "e">>
K_description == <<"d", "e", "s", "c", "r", "i", "p", "t", "i", "o", "n">>
K_longDescription == <<"l", "o", "n", "g", "D", "e", "s", "c", "r", "i", "p", "t", "i", "o", "n">>
K_tags == <<"t", "a", "g", "s">>
K_status == <<"s", "t", "a", "t", "u", "s">>
K_downloads == <<"d", "o", "w", "n", "l", "o", "a", "d", "s">>
K_lastUpdated == <<"l", "a", "s", "t", "U", "p", "d", "a", "t", "e", "d">>
K_version == <<"v", "e", "r", "s", "i", "o", "n">>
K_author == <<"a", "u", "t", "h", "o", "r">>
K_license == <<"l", "i", "c", "e", "n", "s", "e">>
K_createdDate == <<"c", "r", "e", "a", "t", "e", "d", "D", "a", "t", "e">>
K_envVars == <<"e", "n", "v", "V", "a", "r", "s">>

DotCs == <<".", "c", "s">>

\* the literal fallbacks of lines 100-109
TextMcpServer == <<"M", "C", "P", " ", "S", "e", "r", "v", "e", "r">>
TextStable == <<"s", "t", "a", "b", "l", "e">>
TextBeta == <<"b", "e", "t", "a">>
TextAlpha == <<"a", "l", "p", "h", "a">>
TextVersion == <<"1", ".", "0", ".", "0">>
TextUnknown == <<"U", "n", "k", "n", "o", "w", "n">>
TextMit == <<"M", "I", "T">>
IsoMonthPrefix == <<"2", "0", "2", "5", "-", "0", "1", "-">>

\* path.extname: from the last '.', unless there is none or it starts the name
RECURSIVE LastDot(_, _)
LastDot(f, p) == IF p = 0 THEN 0 ELSE IF f[p] = "." THEN p ELSE LastDot(f, p - 1)

ExtName(f) ==
  LET p == LastDot(f, Len(f)) IN IF p <= 1 THEN <<>> ELSE SubSeq(f, p, Len(f))

\* path.basename(filePath, '.cs'): the suffix is dropped unless it is the whole name
Basename(f) ==
  IF Len(f) > Len(DotCs) /\ SubSeq(f, Len(f) - Len(DotCs) + 1, Len(f)) = DotCs
    THEN SubSeq(f, 1, Len(f) - Len(DotCs))
    ELSE f

\* new Date().toISOString().split('T')[0] on day d of the model's calendar
\* (day 0 is 2025-01-01)
IsoDate(d) ==
  IsoMonthPrefix \o (IF d + 1 < 10 THEN <<"0">> ELSE <<>>) \o NumToString(d + 1)

(***************************************************************************)
(* extractToolsFromCSharp (servers.js)                                     *)
(***************************************************************************)
TextMcpServerTool == <<"[", "M", "c", "p", "S", "e", "r", "v", "e", "r", "T", "o", "o", "l">>
TextDescriptionOpen == <<"D", "e", "s", "c", "r", "i", "p", "t", "i", "o", "n", "(">>
TextPublicStatic == <<"p", "u", "b", "l", "i", "c", " ", "s", "t", "a", "t", "i", "c">>

\* the characters of the class \w
WordChars ==
  { "a", "b", "c", "d", "e", "f", "g", "h", "i", "j", "k", "l", "m", "n", "o", "p", "q",
    "r", "s", "t", "u", "v", "w", "x", "y", "z", "A", "B", "C", "D", "E", "F", "G", "H",
    "I", "J", "K", "L", "M", "N", "O", "P", "Q", "R", "S", "T", "U", "V", "W", "X", "Y",
    "Z", "0", "1", "2", "3", "4", "5", "6", "7", "8", "9", "_" }

\* length of the longest prefix of s made of characters of cs
RECURSIVE RunLength(_, _)
RunLength(s, cs) ==
  IF s # <<>> /\ Head(s) \in cs THEN 1 + RunLength(Tail(s), cs) ELSE 0

\* length of the longest prefix of s without a double quote: [^"]+
RECURSIVE NonQuoteRun(_)
NonQuoteRun(s) ==
  IF s # <<>> /\ Head(s) # "\"" THEN 1 + NonQuoteRun(Tail(s)) ELSE 0

\* \s* and \w+ consumed greedily (a shorter run never lets the rest match)
SkipSpaces(s) == Substring(s, RunLength(s, WhiteSpace))

SkipWord(s) == Substring(s, RunLength(s, WordChars))

NoMatch == [found |-> FALSE, group |-> <<>>]

\* a plausible slip: [^"]* in place of [^"]+, so that an empty description matches
DescriptionAtAllowEmpty(s) ==
  IF StartsWith(s, TextDescriptionOpen \o <<"\"">>)
       /\ StartsWith(Substring(s, Len(TextDescriptionOpen) + 1
                                    + NonQuoteRun(Substring(s, Len(TextDescriptionOpen) + 1))),
                     <<"\"", ")">>)
    THEN [found |-> TRUE,
          group |-> SubSeq(s, Len(TextDescriptionOpen) + 2,
                           Len(TextDescriptionOpen) + 1
                             + NonQuoteRun(Substring(s, Len(TextDescriptionOpen) + 1)))]
    ELSE NoMatch

\* /Description\("([^"]+)"\)/ tried at the start of s
DescriptionAt(s) ==
  IF StartsWith(s, TextDescriptionOpen \o <<"\"">>)
       /\ NonQuoteRun(Substring(s, Len(TextDescriptionOpen) + 1)) >= 1
       /\ StartsWith(Substring(s, Len(TextDescriptionOpen) + 1
                                    + NonQuoteRun(Substring(s, Len(TextDescriptionOpen) + 1))),
                     <<"\"", ")">>)
    THEN [found |-> TRUE,
          group |-> SubSeq(s, Len(TextDescriptionOpen) + 2,
                           Len(TextDescriptionOpen) + 1
                             + NonQuoteRun(Substring(s, Len(TextDescriptionOpen) + 1)))]
    ELSE NoMatch

\* line 129: line.match(/Description\("([^"]+)"\)/), the leftmost match
RECURSIVE MatchDescription(_)
MatchDescription(s) ==
  IF s = <<>> THEN NoMatch
  ELSE IF DescriptionAt(s).found THEN DescriptionAt(s)
  ELSE MatchDescription(Tail(s))

\* where the return type and the method name start when the pattern of line 138
\* is tried at the start of s
ReturnTypeStart(s) == SkipSpaces(Substring(s, Len(TextPublicStatic)))

MethodNameStart(s) == SkipSpaces(SkipWord(ReturnTypeStart(s)))

\* /public static\s+\w+\s+(\w+)\s*\(/ tried at the start of s
MethodAt(s) ==
  IF /\ StartsWith(s, TextPublicStatic)
     /\ RunLength(Substring(s, Len(TextPublicStatic)), WhiteSpace) >= 1
     /\ RunLength(ReturnTypeStart(s), WordChars) >= 1
     /\ RunLength(SkipWord(ReturnTypeStart(s)), WhiteSpace) >= 1
     /\ RunLength(MethodNameStart(s), WordChars) >= 1
     /\ StartsWith(SkipSpaces(SkipWord(MethodNameStart(s))), <<"(">>)
    THEN [found |-> TRUE,
          group |-> SubSeq(MethodNameStart(s), 1, RunLength(MethodNameStart(s), WordChars))]
    ELSE NoMatch

\* line 138: methodLine.match(...), the leftmost match
RECURSIVE MatchMethod(_)
MatchMethod(s) ==
  IF s = <<>> THEN NoMatch
  ELSE IF MethodAt(s).found THEN MethodAt(s)
  ELSE MatchMethod(Tail(s))

Min(a, b) == IF a < b THEN a ELSE b

\* a plausible slip: the lookahead runs to the end of the text
RECURSIVE FindMethodUnbounded(_, _, _)
FindMethodUnbounded(lines, j, limit) ==
  IF j >= Len(lines) THEN <<>>
  ELSE IF /\ Includes(Trim(lines[j + 1]), TextPublicStatic)
          /\ Includes(Trim(lines[j + 1]), <<"(">>)
          /\ MatchMethod(Trim(lines[j + 1])).found
    THEN <<MatchMethod(Trim(lines[j + 1])).group>>
  ELSE FindMethodUnbounded(lines, j + 1, limit)

\* lines 134-148: the method names found for one attribute line (none or one);
\* j is 0-based
RECURSIVE FindMethod(_, _, _)
FindMethod(lines, j, limit) ==
  IF j >= limit THEN <<>>
  ELSE IF /\ Includes(Trim(lines[j + 1]), TextPublicStatic)
          /\ Includes(Trim(lines[j + 1]), <<"(">>)
          /\ MatchMethod(Trim(lines[j + 1])).found
    THEN <<MatchMethod(Trim(lines[j + 1])).group>>
  ELSE FindMethod(lines, j + 1, limit)

\* lines 128-149: the tools pushed while the outer loop is at line i (0-based)
ToolsAt(lines, i) ==
  IF /\ Includes(Trim(lines[i + 1]), TextMcpServerTool)
     /\ Includes(Trim(lines[i + 1]), TextDescriptionOpen)
     /\ MatchDescription(Trim(lines[i + 1])).found
    THEN [k \in 1..Len(FindMethod(lines, i + 1, Min(i + 10, Len(lines)))) |->
            [name |-> FindMethod(lines, i + 1, Min(i + 10, Len(lines)))[k],
             description |-> MatchDescription(Trim(lines[i + 1])).group]]
    ELSE <<>>

\* lines 124-151
RECURSIVE ToolsFrom(_, _)
ToolsFrom(lines, i) ==
  IF i >= Len(lines) THEN <<>>
  ELSE ToolsAt(lines, i) \o ToolsFrom(lines, i + 1)

\* lines 120-154
extractToolsFromCSharp(contents) == ToolsFrom(Split(contents), 0)

(***************************************************************************)
(* The server object (servers.js, lines 97-115)                            *)
(***************************************************************************)

\* a plausible slip: metadata.tags || []
ResolveTagsNoWrap(tags) == Or(tags, Arr(<<>>))

\* line 103
ResolveTags(tags) ==
  IF IsArray(tags) THEN tags
  ELSE IF Truthy(tags) THEN Arr(<<tags>>)
  ELSE Arr(<<>>)

\* a plausible slip: the literal fallback without the description in between
ResolveLongDescriptionLiteral(longDescription, description) ==
  Or(longDescription, Str(TextMcpServer))

\* line 102
ResolveLongDescription(longDescription, description) ==
  Or(Or(longDescription, description), Str(TextMcpServer))

\* lines 97-115: the server object literal.  now1 and now2 are the days read by
\* the two new Date() calls (lines 106 and 110)
BuildServer(metadata, filename, contents, now1, now2) ==
  [id              |-> Or(Member(metadata, K_id), Str(filename)),
   name            |-> Or(Member(metadata, K_name), Str(filename \o DotCs)),
   description     |-> Or(Member(metadata, K_description), Str(TextMcpServer)),
   longDescription |-> ResolveLongDescription(Member(metadata, K_longDescription),
                                              Member(metadata, K_description)),
   tags            |-> ResolveTags(Member(metadata, K_tags)),
   status          |-> Or(Member(metadata, K_status), Str(TextStable)),
   downloads       |-> Or(Member(metadata, K_downloads), Num(0)),
   lastUpdated     |-> Or(Member(metadata, K_lastUpdated), Str(IsoDate(now1))),
   version         |-> Or(Member(metadata, K_version), Str(TextVersion)),
   author          |-> Or(Member(metadata, K_author), Str(TextUnknown)),
   license         |-> Or(Member(metadata, K_license), Str(TextMit)),
   createdDate     |-> Or(Or(Member(metadata, K_createdDate),
                             Member(metadata, K_lastUpdated)), Str(IsoDate(now2))),
   envVars         |-> Or(Member(metadata, K_envVars), Arr(<<>>)),
   tools           |-> extractToolsFromCSharp(contents),
   code            |-> contents,
   displayCode     |-> extractCodeWithoutFrontMatter(contents)]

\* a plausible slip: the text is trimmed before the record is built
parseCSharpMcpServerTrimmed(contents, file, now1, now2) ==
  BuildServer(DecodeFrontMatter(contents).metadata, Basename(file), Trim(contents), now1, now2)

\* lines 44-118
parseCSharpMcpServer(contents, file, now1, now2) ==
  BuildServer(DecodeFrontMatter(contents).metadata, Basename(file), contents, now1, now2)

\* lines 6-9 of serversArray.js: ({ id: key, ...value }); a later property of an
\* object literal replaces an earlier one of the same name
ObjectLiteralIdThenSpread(key, value) ==
  [f \in {"id"} \cup DOMAIN value |-> IF f \in DOMAIN value THEN value[f] ELSE Str(key)]

\* Object.entries(serversData).map(...)
ToList(serversData) ==
  LET ks == OwnKeys(serversData)
  IN  [i \in 1..Len(ks) |-> ObjectLiteralIdThenSpread(ks[i], GetProperty(serversData, ks[i]))]

\* a plausible slip: the listing is not filtered
FilterNone(names) == names

\* readdirSync(mcpDir).filter(f => extname(f) === '.cs')
FilterCs(names) == SelectSeq(names, LAMBDA f : ExtName(f) = DotCs)

(***************************************************************************)
(* The inputs of the model: file names and file texts.                     *)
(***************************************************************************)
FileA == <<"a", ".", "c", "s">>
FileB == <<"b", ".", "c", "s">>
FileReadme == <<"r", ".", "m", "d">>

FileNames == {FileA, FileB, FileReadme}

L_id_a == <<"/", "/", " ", "i", "d", ":", " ", "a">>
L_id_1 == <<"/", "/", " ", "i", "d", ":", " ", "1">>
L_id_2 == <<"/", "/", " ", "i", "d", ":", " ", "2">>
L_id_0 == <<"/", "/", " ", "i", "d", ":", " ", "0">>
L_name == <<"/", "/", " ", "n", "a", "m", "e", ":", " ", "n", ".", "c", "s">>
L_description == <<"/", "/", " ", "d", "e", "s", "c", "r", "i", "p", "t", "i", "o", "n", ":", " ", "d">>
L_description_empty == <<"/", "/", " ", "d", "e", "s", "c", "r", "i", "p", "t", "i", "o", "n", ":", " ", "\"", "\"">>
L_longDescription == <<"/", "/", " ", "l", "o", "n", "g", "D", "e", "s", "c", "r", "i", "p", "t", "i", "o", "n", ":", " ", "l">>
L_tags_key == <<"/", "/", " ", "t", "a", "g", "s", ":">>
L_item_alpha == <<"/", "/", " ", " ", " ", " ", " ", "-", " ", "a", "l", "p", "h", "a">>
L_item_beta == <<"/", "/", " ", " ", " ", " ", " ", "-", " ", "b", "e", "t", "a">>
L_tags_scalar == <<"/", "/", " ", "t", "a", "g", "s", ":", " ", "t">>
L_tags_zero == <<"/", "/", " ", "t", "a", "g", "s", ":", " ", "0">>
L_tags_flow == <<"/", "/", " ", "t", "a", "g", "s", ":", " ", "[", "p", ",", " ", "q", "]">>
L_tags_unclosed == <<"/", "/", " ", "t", "a", "g", "s", ":", " ", "[", "a">>
L_status == <<"/", "/", " ", "s", "t", "a", "t", "u", "s", ":", " ", "b", "e", "t", "a">>
L_status_wip == <<"/", "/", " ", "s", "t", "a", "t", "u", "s", ":", " ", "w", "i", "p">>
L_downloads == <<"/", "/", " ", "d", "o", "w", "n", "l", "o", "a", "d", "s", ":", " ", "5">>
L_lastUpdated == <<"/", "/", " ", "l", "a", "s", "t", "U", "p", "d", "a", "t", "e", "d", ":", " ", "2", "0", "2", "4", "-", "1", "2", "-", "3", "1">>
L_version == <<"/", "/", " ", "v", "e", "r", "s", "i", "o", "n", ":", " ", "2", ".", "0", ".", "0">>
L_version_false == <<"/", "/", " ", "v", "e", "r", "s", "i", "o", "n", ":", " ", "f", "a", "l", "s", "e">>
L_author == <<"/", "/", " ", "a", "u", "t", "h", "o", "r", ":", " ", "m", "e">>
L_license == <<"/", "/", " ", "l", "i", "c", "e", "n", "s", "e", ":", " ", "G", "P", "L">>
L_createdDate == <<"/", "/", " ", "c", "r", "e", "a", "t", "e", "d", "D", "a", "t", "e", ":", " ", "2", "0", "2", "4", "-", "0", "1", "-", "0", "1">>
L_envVars_key == <<"/", "/", " ", "e", "n", "v", "V", "a", "r", "s", ":">>
L_item_key == <<"/", "/", " ", " ", " ", " ", " ", "-", " ", "A", "P", "I", "_", "K", "E", "Y">>
L_envVars_scalar == <<"/", "/", " ", "e", "n", "v", "V", "a", "r", "s", ":", " ", "K">>
L_code == <<"x">>
L_using == <<"u", "s", "i", "n", "g", " ", "S", "y", "s", "t", "e", "m", ";", " ", " ">>
L_lt == <<"a", " ", "&", "l", "t", ";", " ", "b">>
L_amp_lt == <<"&", "a", "m", "p", ";", "l", "t", ";">>
L_blank == <<>>
L_sentinel_padded == <<" ", " ", "/", "/", " ", "-", "-", "-", " ", " ">>
L_slashes == <<"/", "/">>
L_tab_comment == <<"\t", "/", "/", "\t", "b", ":", " ", "1", " ", " ">>
L_indented == <<"\t", " ", "y">>
L_attr_add == <<" ", "[", "M", "c", "p", "S", "e", "r", "v", "e", "r", "T", "o", "o", "l", ",", " ", "D", "e", "s", "c", "r", "i", "p", "t", "i", "o", "n", "(", "\"", "A", "d", "d", "s", "\"", ")", "]">>
L_method_add == <<" ", "p", "u", "b", "l", "i", "c", " ", "s", "t", "a", "t", "i", "c", " ", "D", "a", "t", "e", "T", "i", "m", "e", " ", "A", "d", "d", "T", "i", "m", "e", "(", "i", "n", "t", " ", "d", ")">>

\* the front-matter entries (one or more comment lines each) of generated files
MetaPool ==
  { <<L_id_a>>, <<L_id_0>>, <<L_id_2>>, <<L_name>>,
    <<L_description>>, <<L_description_empty>>, <<L_longDescription>>,
    <<L_tags_key, L_item_alpha, L_item_beta>>, <<L_tags_scalar>>, <<L_tags_zero>>,
    <<L_tags_flow>>, <<L_tags_key>>, <<L_tags_unclosed>>,
    <<L_status>>, <<L_status_wip>>, <<L_downloads>>, <<L_lastUpdated>>, <<L_version>>,
    <<L_version_false>>, <<L_author>>, <<L_license>>, <<L_createdDate>>,
    <<L_envVars_key, L_item_key>>, <<L_envVars_key>>, <<L_envVars_scalar>> }

\* body lines of generated files
BodyPool == { L_code, L_using, L_lt, L_amp_lt, L_blank, L_indented, L_id_a }

\* all concatenations of at most n elements of pool (sequences of lines)
RECURSIVE Concats(_, _)
Concats(pool, n) ==
  IF n = 0 THEN { <<>> }
  ELSE LET shorter == Concats(pool, n - 1)
       IN  shorter \cup { e \o r : e \in pool, r \in shorter }

\* a file with a front-matter block
WithFrontMatter(meta, body) == Join(<<Sentinel>> \o meta \o <<Sentinel>> \o body)

\* the texts of the files of a build
BuildContents ==
  { Join(<<L_code>>),
    WithFrontMatter(<<L_id_a>>, <<L_code>>),
    WithFrontMatter(<<L_id_1>>, <<L_code>>),
    WithFrontMatter(<<L_id_2>>, <<L_lt>>),
    WithFrontMatter(<<L_tags_unclosed>>, <<L_code>>) }

\* the texts given to parseCSharpMcpServer alone
RecordContents ==
  { WithFrontMatter(m, <<L_code>>) : m \in Concats(MetaPool, MaxMeta) }
    \cup { Join(b) : b \in Concats({ <<l>> : l \in BodyPool }, MaxBody) }
    \cup { WithFrontMatter(m, <<L_attr_add, L_method_add>>) :
              m \in { <<L_id_a>>, <<L_tags_unclosed>>, <<L_envVars_scalar>> } }

\* the pieces of the texts given to the entity decoder alone
ChunkPool ==
  { <<"&">>, <<"a", "m", "p", ";">>, <<"l", "t", ";">>, EntQuot, EntApos, EntGt, <<"x">> }

DecodeInputs == { Join(<<>>) } \cup Concats(ChunkPool, MaxChunks)

\* the texts given to the front-matter scan and to extractCodeWithoutFrontMatter
\* alone: sentinel lines at any place, comment lines and code lines
SpanPool ==
  { Sentinel, L_sentinel_padded, L_id_a, L_item_alpha, L_tab_comment, L_slashes, L_lt }

SpanInputs == { Join(ls) : ls \in Concats({ <<l>> : l \in SpanPool }, MaxSpan) }

\* the texts given to extractToolsFromCSharp alone: an attribute line, some
\* lines, a method declaration, and possibly a second tool after it
ToolDescriptions == { <<"D", "o", "e", "s", " ", "X">>, <<"D", "i", "f", "f">> }

ToolMethods ==
  { [ret |-> <<"s", "t", "r", "i", "n", "g">>, name |-> <<"D", "o", "X">>],
    [ret |-> <<"T", "i", "m", "e", "R", "e", "s", "u", "l", "t">>, name |-> <<"G", "e", "t", "T", "i", "m", "e">>],
    [ret |-> <<"(", "i", "n", "t", " ", "d", ",", " ", "i", "n", "t", " ", "h", ")">>, name |-> <<"D", "i", "f", "f">>],
    [ret |-> <<"T", "a", "s", "k", "<", "s", "t", "r", "i", "n", "g", ">">>, name |-> <<"R", "u", "n">>] }

L_brace == <<"{">>

ToolTails == { <<>>, <<L_attr_add, L_method_add>>, <<L_brace, L_attr_add, L_method_add>> }

AttributeLine(d) == <<" ", "[", "M", "c", "p", "S", "e", "r", "v", "e", "r", "T", "o", "o", "l", ",", " ", "D", "e", "s", "c", "r", "i", "p", "t", "i", "o", "n", "(", "\"">> \o d \o <<"\"", ")", "]">>

MethodLine(m) == <<" ", "p", "u", "b", "l", "i", "c", " ", "s", "t", "a", "t", "i", "c", " ">> \o m.ret \o <<" ">> \o m.name \o <<"(", "i", "n", "t", " ", "a", ")">>

ToolText(d, gap, m, tail) ==
  Join(<<AttributeLine(d)>> \o [k \in 1..gap |-> L_brace] \o <<MethodLine(m)>> \o tail)

\* attribute lines without a match of the Description pattern: no description,
\* an empty one, a verbatim string that goes on over the next lines
UnmatchedAttributeLines ==
  { <<" ", "[", "M", "c", "p", "S", "e", "r", "v", "e", "r", "T", "o", "o", "l", "]">>,
    <<" ", "[", "M", "c", "p", "S", "e", "r", "v", "e", "r", "T", "o", "o", "l", ",", " ", "D", "e", "s", "c", "r", "i", "p", "t", "i", "o", "n", "(", "\"", "\"", ")", "]">>,
    <<" ", "[", "M", "c", "p", "S", "e", "r", "v", "e", "r", "T", "o", "o", "l", ",", " ", "D", "e", "s", "c", "r", "i", "p", "t", "i", "o", "n", "(", "@", "\"", "R", "u", "n">> }

L_method_dox == <<" ", "p", "u", "b", "l", "i", "c", " ", "s", "t", "a", "t", "i", "c", " ", "s", "t", "r", "i", "n", "g", " ", "D", "o", "X", "(", "i", "n", "t", " ", "a", ")">>

\* texts that start with such an attribute line and its method
SkippedToolText(bad, tail) == Join(<<bad, L_method_dox>> \o tail)

ToolInputs ==
  { ToolText(d, gap, m, tail) :
      d \in ToolDescriptions, gap \in 0..MaxGap, m \in ToolMethods, tail \in ToolTails }
    \cup { SkippedToolText(bad, tail) : bad \in UnmatchedAttributeLines, tail \in ToolTails }

\* the directories of a build: at most MaxFiles entries with distinct names
Directories ==
  UNION { { d \in [1..n -> [name : FileNames, contents : BuildContents]] :
              \A i, j \in 1..n : i # j => d[i].name # d[j].name } : n \in 0..MaxFiles }

(***************************************************************************)
(* State.                                                                  *)
(***************************************************************************)
VARIABLES
  dir,           \* the entries of mcp/, in the order readdirSync lists them
  clock,         \* the current day
  done,          \* the data files Eleventy has evaluated: "servers", "serversArray"
  pc,            \* "idle", or the position in a running servers(): "try", "loop"
  caller,        \* who runs servers(): the data file "servers" or "serversArray"
  files,         \* servers(): const files
  idx,           \* servers(): position of the for loop in files (1-based)
  servers,       \* servers(): const servers
  serversData,   \* the value of the data file servers.js
  serversArray,  \* the value of the data file serversArray.js
  thrown,        \* the data files whose evaluation ended with an exception
  fsTrace,       \* the readdirSync and readFileSync calls made so far
  console,       \* the console.log and console.warn calls made so far
  fnInput,       \* input of a function applied on its own
  fnOutput,      \* its result
  fnDone         \* whether it has been applied

vars == <<dir, clock, done, pc, caller, files, idx, servers, serversData,
          serversArray, thrown, fsTrace, console, fnInput, fnOutput, fnDone>>

buildVars == <<dir, clock, done, pc, caller, files, idx, servers, serversData,
               serversArray, thrown, fsTrace, console>>

fnVars == <<fnInput, fnOutput, fnDone>>

FsCall(op, file, ok) == [by |-> caller, op |-> op, file |-> file, ok |-> ok]

ConsoleCall(level, what) == [by |-> caller, level |-> level, what |-> what]

InitBuild ==
  /\ clock = 0
  /\ done = {}
  /\ pc = "idle"
  /\ caller = "none"
  /\ files = <<>>
  /\ idx = 0
  /\ servers = EmptyObject
  /\ serversData = EmptyObject
  /\ serversArray = <<>>
  /\ thrown = {}
  /\ fsTrace = <<>>
  /\ console = <<>>

InitFn ==
  /\ fnInput = <<>>
  /\ fnOutput = <<>>
  /\ fnDone = FALSE

Init ==
  /\ dir \in Directories
  /\ InitBuild
  /\ InitFn

(***************************************************************************)
(* The build: Eleventy evaluates the two data files, each once.            *)
(***************************************************************************)
\* servers(): lines 19-20
EvalServers ==
  /\ pc = "idle"
  /\ "servers" \notin done
  /\ caller' = "servers"
  /\ pc' = "try"
  /\ servers' = EmptyObject
  /\ UNCHANGED <<dir, clock, done, files, idx, serversData, serversArray, thrown,
                 fsTrace, console>>
  /\ UNCHANGED fnVars

\* serversArray(): line 4 calls servers()
EvalServersArray ==
  /\ pc = "idle"
  /\ "serversArray" \notin done
  /\ caller' = "serversArray"
  /\ pc' = "try"
  /\ servers' = EmptyObject
  /\ UNCHANGED <<dir, clock, done, files, idx, serversData, serversArray, thrown,
                 fsTrace, console>>
  /\ UNCHANGED fnVars

\* lines 40-41, and the use of the returned mapping by the caller
ReturnServers(result, out) ==
  /\ pc' = "idle"
  /\ caller' = "none"
  /\ done' = done \cup {caller}
  /\ console' = out \o <<ConsoleCall("log", "Total servers loaded")>>
  /\ IF caller = "servers"
       THEN serversData' = result /\ UNCHANGED serversArray
       ELSE serversArray' = ToList(result) /\ UNCHANGED serversData
  /\ UNCHANGED thrown

\* a plausible slip: the files are taken from the end of the listing
ReadDirOkReversed ==
  /\ pc = "try"
  /\ fsTrace' = Append(fsTrace, FsCall("readdirSync", <<>>, TRUE))
  /\ files' = [i \in 1..Len(FilterCs([k \in 1..Len(dir) |-> dir[k].name])) |->
                 FilterCs([k \in 1..Len(dir) |-> dir[k].name])
                   [Len(FilterCs([k \in 1..Len(dir) |-> dir[k].name])) + 1 - i]]
  /\ idx' = 1
  /\ pc' = "loop"
  /\ console' = console \o <<ConsoleCall("log", "Looking for C# files in"),
                             ConsoleCall("log", "Found C# files")>>
  /\ UNCHANGED <<dir, clock, done, caller, servers, serversData, serversArray, thrown>>
  /\ UNCHANGED fnVars

\* lines 24-27: readdirSync succeeds
ReadDirOk ==
  /\ pc = "try"
  /\ fsTrace' = Append(fsTrace, FsCall("readdirSync", <<>>, TRUE))
  /\ files' = FilterCs([i \in 1..Len(dir) |-> dir[i].name])
  /\ idx' = 1
  /\ pc' = "loop"
  /\ console' = console \o <<ConsoleCall("log", "Looking for C# files in"),
                             ConsoleCall("log", "Found C# files")>>
  /\ UNCHANGED <<dir, clock, done, caller, servers, serversData, serversArray, thrown>>
  /\ UNCHANGED fnVars

\* an exception leaves servers(): no value is returned to the caller
Propagate(out) ==
  /\ pc' = "idle"
  /\ caller' = "none"
  /\ done' = done \cup {caller}
  /\ thrown' = thrown \cup {caller}
  /\ console' = out
  /\ UNCHANGED <<serversData, serversArray>>

\* a plausible slip: readdirSync called outside the try block
ReadDirFailUncaught ==
  /\ pc = "try"
  /\ fsTrace' = Append(fsTrace, FsCall("readdirSync", <<>>, FALSE))
  /\ Propagate(console \o <<ConsoleCall("log", "Looking for C# files in")>>)
  /\ UNCHANGED <<dir, clock, files, idx, servers>>
  /\ UNCHANGED fnVars

\* lines 24-26 and 36-41: readdirSync throws, the catch block logs, servers is returned
ReadDirFail ==
  /\ pc = "try"
  /\ fsTrace' = Append(fsTrace, FsCall("readdirSync", <<>>, FALSE))
  /\ ReturnServers(servers, console \o <<ConsoleCall("log", "Looking for C# files in"),
                                         ConsoleCall("warn", "No mcp directory found or failed to read C# files")>>)
  /\ UNCHANGED <<dir, clock, files, idx, servers>>
  /\ UNCHANGED fnVars

Contents(file) == dir[CHOOSE i \in 1..Len(dir) : dir[i].name = file].contents

\* a plausible slip: an id that is already present is not overwritten
StoreServerKeepFirst(o, server) ==
  IF HasKey(o, ToPropertyKey(server.id)) THEN o
  ELSE SetProperty(o, ToPropertyKey(server.id), server)

\* line 34: servers[server.id] = server
StoreServer(o, server) == SetProperty(o, ToPropertyKey(server.id), server)

\* the console calls of one iteration (lines 83-84 when the decode fails, line 33)
ParseOutput(contents) ==
  (IF DecodeFrontMatter(contents).failed
     THEN <<ConsoleCall("warn", "Failed to parse front matter"),
            ConsoleCall("warn", "YAML content")>>
     ELSE <<>>)
  \o <<ConsoleCall("log", "Parsed server")>>

\* a plausible slip: parseYaml called without its own try/catch, so that a decode
\* failure reaches the catch block of servers()
ProcessFileYamlUncaught ==
  /\ pc = "loop"
  /\ idx <= Len(files)
  /\ fsTrace' = Append(fsTrace, FsCall("readFileSync", files[idx], TRUE))
  /\ IF DecodeFrontMatter(Contents(files[idx])).failed
       THEN /\ ReturnServers(servers, console \o <<ConsoleCall("warn", "No mcp directory found or failed to read C# files")>>)
            /\ UNCHANGED <<clock, idx, servers>>
       ELSE /\ \E now2 \in clock..MaxDay :
                 /\ servers' = StoreServer(servers,
                                 parseCSharpMcpServer(Contents(files[idx]), files[idx], clock, now2))
                 /\ clock' = now2
            /\ console' = console \o ParseOutput(Contents(files[idx]))
            /\ idx' = idx + 1
            /\ UNCHANGED <<done, pc, caller, serversData, serversArray, thrown>>
  /\ UNCHANGED <<dir, files>>
  /\ UNCHANGED fnVars

\* lines 29-35: one iteration of the loop; the clock may advance between the two
\* new Date() calls of parseCSharpMcpServer
ProcessFile ==
  /\ pc = "loop"
  /\ idx <= Len(files)
  /\ \E now2 \in clock..MaxDay :
       /\ servers' = StoreServer(servers,
                       parseCSharpMcpServer(Contents(files[idx]), files[idx], clock, now2))
       /\ clock' = now2
  /\ console' = console \o ParseOutput(Contents(files[idx]))
  /\ fsTrace' = Append(fsTrace, FsCall("readFileSync", files[idx], TRUE))
  /\ idx' = idx + 1
  /\ UNCHANGED <<dir, done, pc, caller, files, serversData, serversArray, thrown>>
  /\ UNCHANGED fnVars

\* a plausible slip: the loop placed after the try block
ReadFileFailUncaught ==
  /\ pc = "loop"
  /\ idx <= Len(files)
  /\ fsTrace' = Append(fsTrace, FsCall("readFileSync", files[idx], FALSE))
  /\ Propagate(console)
  /\ UNCHANGED <<dir, clock, files, idx, servers>>
  /\ UNCHANGED fnVars

\* a plausible slip: the try block placed inside the loop, around one file
ReadFileFailSkip ==
  /\ pc = "loop"
  /\ idx <= Len(files)
  /\ fsTrace' = Append(fsTrace, FsCall("readFileSync", files[idx], FALSE))
  /\ console' = console \o <<ConsoleCall("warn", "No mcp directory found or failed to read C# files")>>
  /\ idx' = idx + 1
  /\ UNCHANGED <<dir, clock, done, pc, caller, files, servers, serversData, serversArray, thrown>>
  /\ UNCHANGED fnVars

\* lines 31 and 36-41: readFileSync throws inside the try block
ReadFileFail ==
  /\ pc = "loop"
  /\ idx <= Len(files)
  /\ fsTrace' = Append(fsTrace, FsCall("readFileSync", files[idx], FALSE))
  /\ ReturnServers(servers, console \o <<ConsoleCall("warn", "No mcp directory found or failed to read C# files")>>)
  /\ UNCHANGED <<dir, clock, files, idx, servers>>
  /\ UNCHANGED fnVars

\* lines 29 and 40-41: the loop is over
LoopExit ==
  /\ pc = "loop"
  /\ idx > Len(files)
  /\ ReturnServers(servers, console)
  /\ UNCHANGED <<dir, clock, files, idx, servers, fsTrace>>
  /\ UNCHANGED fnVars

Next ==
  \/ EvalServers
  \/ EvalServersArray
  \/ ReadDirOk
  \/ ReadDirFail
  \/ ProcessFile
  \/ ReadFileFail
  \/ LoopExit

Spec == Init /\ [][Next]_vars

(***************************************************************************)
(* parseCSharpMcpServer applied on its own to one file text.               *)
(***************************************************************************)
InitRecord ==
  /\ dir = <<>>
  /\ InitBuild
  /\ fnInput \in [file : {FileA}, contents : RecordContents]
  /\ fnOutput = <<>>
  /\ fnDone = FALSE

ApplyParseRecord ==
  /\ ~fnDone
  /\ \E now1 \in 0..MaxDay : \E now2 \in now1..MaxDay :
       fnOutput' = parseCSharpMcpServer(fnInput.contents, fnInput.file, now1, now2)
  /\ fnDone' = TRUE
  /\ UNCHANGED fnInput
  /\ UNCHANGED buildVars

NextRecord == ApplyParseRecord

SpecRecord == InitRecord /\ [][NextRecord]_vars

(***************************************************************************)
(* The entity-decode step (lines 184-190) applied on its own to one text.  *)
(***************************************************************************)
InitDecode ==
  /\ dir = <<>>
  /\ InitBuild
  /\ fnInput \in DecodeInputs
  /\ fnOutput = <<>>
  /\ fnDone = FALSE

ApplyDecode ==
  /\ ~fnDone
  /\ fnOutput' = DecodeEntities(fnInput)
  /\ fnDone' = TRUE
  /\ UNCHANGED fnInput
  /\ UNCHANGED buildVars

NextDecode == ApplyDecode

SpecDecode == InitDecode /\ [][NextDecode]_vars

(***************************************************************************)
(* extractToolsFromCSharp (lines 120-154) applied on its own to one text.  *)
(***************************************************************************)
InitTools ==
  /\ dir = <<>>
  /\ InitBuild
  /\ fnInput \in ToolInputs
  /\ fnOutput = <<>>
  /\ fnDone = FALSE

ApplyExtractTools ==
  /\ ~fnDone
  /\ fnOutput' = extractToolsFromCSharp(fnInput)
  /\ fnDone' = TRUE
  /\ UNCHANGED fnInput
  /\ UNCHANGED buildVars

NextTools == ApplyExtractTools

SpecTools == InitTools /\ [][NextTools]_vars

(***************************************************************************)
(* The two sentinel scans applied on their own to one text: the front-      *)
(* matter loop of parseCSharpMcpServer (lines 45-74) and                    *)
(* extractCodeWithoutFrontMatter (lines 156-193).                           *)
(***************************************************************************)
InitSpan ==
  /\ dir = <<>>
  /\ InitBuild
  /\ fnInput \in [op : {"frontMatter", "displayCode"}, contents : SpanInputs]
  /\ fnOutput = <<>>
  /\ fnDone = FALSE

ApplyFrontMatter ==
  /\ ~fnDone
  /\ fnInput.op = "frontMatter"
  /\ fnOutput' = FrontMatterLines(Split(fnInput.contents), 0, FALSE)
  /\ fnDone' = TRUE
  /\ UNCHANGED fnInput
  /\ UNCHANGED buildVars

ApplyDisplayCode ==
  /\ ~fnDone
  /\ fnInput.op = "displayCode"
  /\ fnOutput' = extractCodeWithoutFrontMatter(fnInput.contents)
  /\ fnDone' = TRUE
  /\ UNCHANGED fnInput
  /\ UNCHANGED buildVars

NextSpan == ApplyFrontMatter \/ ApplyDisplayCode

SpecSpan == InitSpan /\ [][NextSpan]_vars

(***************************************************************************)
(* Properties of parseCSharpMcpServer (checked under SpecRecord).          *)
(***************************************************************************)
FnMetadata == DecodeFrontMatter(fnInput.contents).metadata

FnDecodesToMapping ==
  /\ FrontMatterLines(Split(fnInput.contents), 0, FALSE) # <<>>
  /\ ~DecodeFrontMatter(fnInput.contents).failed
  /\ FnMetadata.kind = "map"

FnStem == SubSeq(fnInput.file, 1, Len(fnInput.file) - 3)

\* the dates new Date() can give in the model
BuildDates == { Str(IsoDate(d)) : d \in 0..MaxDay }

ExplicitOrDefault(key, actual, default) ==
  IF HasMember(FnMetadata, key) THEN actual = Member(FnMetadata, key) ELSE actual = default

ExplicitKept(key, actual) ==
  HasMember(FnMetadata, key) => actual = Member(FnMetadata, key)

TruthyOrDefault(key, actual, default) ==
  IF Truthy(Member(FnMetadata, key)) THEN actual = Member(FnMetadata, key) ELSE actual = default

TruthyKept(key, actual) ==
  Truthy(Member(FnMetadata, key)) => actual = Member(FnMetadata, key)

\* C1 as stated: when the metadata block decodes to a mapping, every field set
\* in the mapping has exactly the decoded value and every omitted field has its
\* documented default.
C1_ExplicitValueOrDefault ==
  (fnDone /\ FnDecodesToMapping) =>
    /\ ExplicitOrDefault(K_id, fnOutput.id, Str(FnStem))
    /\ ExplicitOrDefault(K_name, fnOutput.name, Str(FnStem \o DotCs))
    /\ ExplicitOrDefault(K_description, fnOutput.description, Str(TextMcpServer))
    /\ ExplicitKept(K_longDescription, fnOutput.longDescription)
    /\ ExplicitOrDefault(K_status, fnOutput.status, Str(TextStable))
    /\ ExplicitOrDefault(K_downloads, fnOutput.downloads, Num(0))
    /\ ExplicitKept(K_lastUpdated, fnOutput.lastUpdated)
    /\ ExplicitOrDefault(K_version, fnOutput.version, Str(TextVersion))
    /\ ExplicitOrDefault(K_author, fnOutput.author, Str(TextUnknown))
    /\ ExplicitOrDefault(K_license, fnOutput.license, Str(TextMit))
    /\ ExplicitKept(K_createdDate, fnOutput.createdDate)
    /\ ExplicitOrDefault(K_envVars, fnOutput.envVars, Arr(<<>>))

\* C1 amended: when the metadata block decodes to a mapping, every field whose
\* decoded value is truthy has exactly the decoded value, and every field that
\* is omitted or whose decoded value is falsy (null, false, 0, the empty string)
\* has its documented default.
C1_TruthyValueOrDefault ==
  (fnDone /\ FnDecodesToMapping) =>
    /\ TruthyOrDefault(K_id, fnOutput.id, Str(FnStem))
    /\ TruthyOrDefault(K_name, fnOutput.name, Str(FnStem \o DotCs))
    /\ TruthyOrDefault(K_description, fnOutput.description, Str(TextMcpServer))
    /\ TruthyKept(K_longDescription, fnOutput.longDescription)
    /\ TruthyOrDefault(K_status, fnOutput.status, Str(TextStable))
    /\ TruthyOrDefault(K_downloads, fnOutput.downloads, Num(0))
    /\ TruthyKept(K_lastUpdated, fnOutput.lastUpdated)
    /\ TruthyOrDefault(K_version, fnOutput.version, Str(TextVersion))
    /\ TruthyOrDefault(K_author, fnOutput.author, Str(TextUnknown))
    /\ TruthyOrDefault(K_license, fnOutput.license, Str(TextMit))
    /\ TruthyKept(K_createdDate, fnOutput.createdDate)
    /\ TruthyOrDefault(K_envVars, fnOutput.envVars, Arr(<<>>))

\* a parsed file whose mapping sets one field to a truthy value and another to
\* a falsy one
C1_Witness ==
  /\ fnDone
  /\ FnDecodesToMapping
  /\ Truthy(Member(FnMetadata, K_id))
  /\ fnOutput.id = Member(FnMetadata, K_id)
  /\ HasMember(FnMetadata, K_description)
  /\ ~Truthy(Member(FnMetadata, K_description))
  /\ fnOutput.description = Str(TextMcpServer)

\* C6 as stated: when the metadata omits createdDate and lastUpdated, the
\* record's createdDate equals the record's own lastUpdated, also when the
\* clock advances between the two field computations.
C6_CreatedDateIsLastUpdated ==
  (fnDone /\ ~HasMember(FnMetadata, K_createdDate) /\ ~HasMember(FnMetadata, K_lastUpdated))
    => fnOutput.createdDate = fnOutput.lastUpdated

\* C7 as stated: tags given as a single scalar become a one-element sequence
\* holding that scalar; absent tags give the empty sequence; a sequence is kept.
C7_ScalarTagsWrapped ==
  fnDone =>
    LET tags == Member(FnMetadata, K_tags)
    IN  /\ (HasMember(FnMetadata, K_tags) /\ ~IsArray(tags)) => fnOutput.tags = Arr(<<tags>>)
        /\ ~HasMember(FnMetadata, K_tags) => fnOutput.tags = Arr(<<>>)
        /\ IsArray(tags) => fnOutput.tags = tags

\* C7 amended: tags given as a single truthy scalar become a one-element
\* sequence holding that scalar; absent tags or a falsy scalar (null, false, 0,
\* the empty string) give the empty sequence; a sequence is kept unchanged.
C7_TruthyScalarTagsWrapped ==
  fnDone =>
    LET tags == Member(FnMetadata, K_tags)
    IN  /\ (~IsArray(tags) /\ Truthy(tags)) => fnOutput.tags = Arr(<<tags>>)
        /\ (~IsArray(tags) /\ ~Truthy(tags)) => fnOutput.tags = Arr(<<>>)
        /\ IsArray(tags) => fnOutput.tags = tags

\* a parsed file whose tags are a truthy scalar, wrapped in the record
C7_Witness ==
  /\ fnDone
  /\ HasMember(FnMetadata, K_tags)
  /\ Member(FnMetadata, K_tags).t = "string"
  /\ fnOutput.tags = Arr(<<Member(FnMetadata, K_tags)>>)

FnNoSentinel ==
  \A i \in 1..Len(Split(fnInput.contents)) : Trim(Split(fnInput.contents)[i]) # Sentinel

AllDefaultMetadata(server, stem) ==
  /\ server.id = Str(stem)
  /\ server.name = Str(stem \o DotCs)
  /\ server.description = Str(TextMcpServer)
  /\ server.longDescription = Str(TextMcpServer)
  /\ server.tags = Arr(<<>>)
  /\ server.status = Str(TextStable)
  /\ server.downloads = Num(0)
  /\ server.lastUpdated \in BuildDates
  /\ server.version = Str(TextVersion)
  /\ server.author = Str(TextUnknown)
  /\ server.license = Str(TextMit)
  /\ server.createdDate \in BuildDates
  /\ server.envVars = Arr(<<>>)

C5_DecodeIdempotent ==
  fnDone => DecodeEntities(fnOutput) = fnOutput

\* C5 amended: decode(decode(t)) = decode(t) for every text t in which
\* '&amp;' does not occur.
C5_DecodeIdempotentWithoutAmp ==
  (fnDone /\ ~Includes(fnInput, EntAmp)) => DecodeEntities(fnOutput) = fnOutput

\* a decoded text without '&amp;' in which entities occurred more than once
C5_Witness ==
  /\ fnDone
  /\ ~Includes(fnInput, EntAmp)
  /\ Includes(fnInput, EntQuot \o EntQuot)
  /\ Includes(fnInput, EntGt)
  /\ ~Includes(fnOutput, EntQuot)

(***************************************************************************)
(* Properties of the build (checked under Spec).                           *)
(***************************************************************************)
FsCallsBy(c) == SelectSeq(fsTrace, LAMBDA e : e.by = c)

FailedRead(c) ==
  \E i \in 1..Len(fsTrace) :
    fsTrace[i].by = c /\ fsTrace[i].op = "readFileSync" /\ ~fsTrace[i].ok

FailedReadDir(c) ==
  \E i \in 1..Len(fsTrace) :
    fsTrace[i].by = c /\ fsTrace[i].op = "readdirSync" /\ ~fsTrace[i].ok

\* the files servers() read successfully when run by c, in order
FilesReadBy(c) ==
  SelectSeq(fsTrace, LAMBDA e : e.by = c /\ e.op = "readFileSync" /\ e.ok)

WarnedScan(c) ==
  \E i \in 1..Len(console) :
    /\ console[i].by = c
    /\ console[i].level = "warn"
    /\ console[i].what = "No mcp directory found or failed to read C# files"

\* the key under which the record of a file is stored
ResolvedKey(file) == ToPropertyKey(parseCSharpMcpServer(Contents(file), file, 0, 0).id)

\* the keys of the value a data file evaluated to
ResultKeys(c) ==
  IF c = "servers" THEN { serversData.keys[i] : i \in 1..Len(serversData.keys) }
  ELSE { ToPropertyKey(serversArray[i].id) : i \in 1..Len(serversArray) }

\* C2 as stated: a failed read of a discovered file propagates out of
\* scanDirectory, which then returns no mapping.
C2_ReadFailurePropagates ==
  \A c \in done : FailedRead(c) => c \in thrown

\* C2 amended: a failed read of a discovered file does not propagate: it is
\* caught inside scanDirectory, which logs a warning, reads no further file and
\* returns the mapping holding the records of the files processed before the
\* failure.
C2_ReadFailureCaught ==
  \A c \in done :
    FailedRead(c) =>
      /\ c \notin thrown
      /\ WarnedScan(c)
      /\ ~FsCallsBy(c)[Len(FsCallsBy(c))].ok
      /\ ResultKeys(c) = { ResolvedKey(FilesReadBy(c)[i].file) : i \in 1..Len(FilesReadBy(c)) }

\* servers.js was evaluated, its second read failed, the first file is in the result
C2_Witness ==
  /\ "servers" \in done
  /\ FailedRead("servers")
  /\ Len(FilesReadBy("servers")) = 1
  /\ Len(serversData.keys) = 1

\* C3: when the directory cannot be listed, scanDirectory does not raise: it
\* logs a warning and returns an empty mapping.
C3_ListFailureGivesEmptyMapping ==
  \A c \in done :
    FailedReadDir(c) =>
      /\ c \notin thrown
      /\ WarnedScan(c)
      /\ (c = "servers" => serversData = EmptyObject)
      /\ (c = "serversArray" => serversArray = <<>>)

\* servers.js was evaluated with a failing listing of a directory that holds a file
C3_Witness ==
  /\ "servers" \in done
  /\ FailedReadDir("servers")
  /\ Len(dir) > 0
  /\ serversData = EmptyObject

LastFsCall == fsTrace[Len(fsTrace)]

\* the last file system call read a file whose front matter fails to decode
LastReadFailedDecode ==
  /\ fsTrace # <<>>
  /\ LastFsCall.op = "readFileSync"
  /\ LastFsCall.ok
  /\ DecodeFrontMatter(Contents(LastFsCall.file)).failed

StemOf(file) == SubSeq(file, 1, Len(file) - 3)

\* the mapping built by the call of c: the local one while c runs, else its value
HasDefaultRecord(c, stem) ==
  IF caller = c
    THEN HasKey(servers, stem) /\ AllDefaultMetadata(GetProperty(servers, stem), stem)
  ELSE IF c = "servers"
    THEN HasKey(serversData, stem) /\ AllDefaultMetadata(GetProperty(serversData, stem), stem)
  ELSE \E i \in 1..Len(serversArray) : AllDefaultMetadata(serversArray[i], stem)

\* C4: when the YAML decode of a file fails, parseRecord does not raise; the
\* record has the default of every field, scanDirectory adds it under the
\* filename stem and goes on with the remaining files.
C4_DecodeFailureGivesDefaults ==
  LastReadFailedDecode =>
    /\ thrown = {}
    /\ HasDefaultRecord(LastFsCall.by, StemOf(LastFsCall.file))
    /\ ~WarnedScan(LastFsCall.by)
    /\ (caller = LastFsCall.by => pc = "loop")

\* a file with a failing decode was just processed and another file is still to come
C4_Witness ==
  /\ LastReadFailedDecode
  /\ caller = LastFsCall.by
  /\ pc = "loop"
  /\ idx <= Len(files)
  /\ HasKey(servers, StemOf(LastFsCall.file))

\* serversArray() has just returned: servers is the mapping it flattened
ArrayJustReturned ==
  /\ pc = "idle"
  /\ console # <<>>
  /\ console[Len(console)].by = "serversArray"

\* C9 as stated: the list has one entry per mapping entry, the id of each entry
\* is the mapping key, and the other fields are those of the value.
C9_ListIdIsKey ==
  ArrayJustReturned =>
    /\ Len(serversArray) = Len(servers.keys)
    /\ \A i \in 1..Len(serversArray) :
         LET key == OwnKeys(servers)[i]
             value == GetProperty(servers, key)
         IN  /\ serversArray[i].id = Str(key)
             /\ \A f \in DOMAIN value \ {"id"} : serversArray[i][f] = value[f]

PositionOf(key) ==
  CHOOSE p \in 1..Len(serversArray) : ToPropertyKey(serversArray[p].id) = key

\* C10 as stated: the list is in file-discovery order: for files processed in
\* the order f1, f2 with different resolved ids, the entry of f1's id precedes
\* the entry of f2's id.
C10_ListInDiscoveryOrder ==
  ArrayJustReturned =>
    LET read == FilesReadBy("serversArray")
    IN  \A i, j \in 1..Len(read) :
          (i < j /\ ResolvedKey(read[i].file) # ResolvedKey(read[j].file))
            => PositionOf(ResolvedKey(read[i].file)) < PositionOf(ResolvedKey(read[j].file))

(***************************************************************************)
(* Properties of extractToolsFromCSharp (checked under SpecTools).         *)
(***************************************************************************)
HasTool(tools, name, description) ==
  \E k \in 1..Len(tools) : tools[k] = [name |-> name, description |-> description]

\* C12 as stated: for every attribute line with Description("d") followed
\* within the next 9 lines by 'public static <ReturnType> <MethodName>(', the
\* descriptor {name: MethodName, description: d} is emitted, whatever the
\* return type.
C12_ToolEmittedForEveryReturnType ==
  fnDone =>
    \A d \in ToolDescriptions, gap \in 0..MaxGap, m \in ToolMethods, tail \in ToolTails :
      (fnInput = ToolText(d, gap, m, tail) /\ gap + 1 <= 9) => HasTool(fnOutput, m.name, d)

(***************************************************************************)
(* Further properties of the build (checked under Spec).                   *)
(***************************************************************************)
\* the files the running servers() has processed so far, as positions in files
Scanned == 1..(idx - 1)

\* position i is the last scanned file that resolves to its key
LastForKey(i) ==
  \A j \in Scanned : j > i => ResolvedKey(files[j]) # ResolvedKey(files[i])

\* C11: ids are unique in the catalog: the mapping holds one record per resolved
\* id, and when several scanned files resolve to the same id the entry under
\* that id is the record of the last-scanned of them.
C11_LastScannedWins ==
  pc = "loop" =>
    /\ \A i, j \in 1..Len(servers.keys) : i # j => servers.keys[i] # servers.keys[j]
    /\ \A i, j \in 1..Len(servers.keys) : i # j => servers.vals[i].id # servers.vals[j].id
    /\ { servers.keys[i] : i \in 1..Len(servers.keys) }
         = { ResolvedKey(files[i]) : i \in Scanned }
    /\ \A i \in Scanned :
         LastForKey(i) =>
           \E now1, now2 \in 0..MaxDay :
             GetProperty(servers, ResolvedKey(files[i]))
               = parseCSharpMcpServer(Contents(files[i]), files[i], now1, now2)

\* two files with different texts resolved to one id; the entry is the second's
C11_Witness ==
  /\ pc = "loop"
  /\ idx = 3
  /\ ResolvedKey(files[1]) = ResolvedKey(files[2])
  /\ Contents(files[1]) # Contents(files[2])
  /\ Len(servers.keys) = 1
  /\ GetProperty(servers, ResolvedKey(files[2])).code = Contents(files[2])

(***************************************************************************)
(* Further properties of parseCSharpMcpServer (checked under SpecRecord).  *)
(***************************************************************************)
\* C13: when the metadata omits longDescription, the record's longDescription
\* equals the record's resolved description (the explicit description if one is
\* given, otherwise the fallback text).
C13_LongDescriptionIsDescription ==
  (fnDone /\ ~HasMember(FnMetadata, K_longDescription))
    => fnOutput.longDescription = fnOutput.description

\* a parsed file that gives a description and no longDescription
C13_Witness ==
  /\ fnDone
  /\ ~HasMember(FnMetadata, K_longDescription)
  /\ Truthy(Member(FnMetadata, K_description))
  /\ fnOutput.longDescription = Member(FnMetadata, K_description)
  /\ fnOutput.longDescription # Str(TextMcpServer)

\* C14 as stated: the status of every record is 'stable', 'beta' or 'alpha',
\* and is 'stable' when the front matter omits status.
C14_StatusIsDocumentedValue ==
  fnDone =>
    /\ fnOutput.status \in { Str(TextStable), Str(TextBeta), Str(TextAlpha) }
    /\ ~HasMember(FnMetadata, K_status) => fnOutput.status = Str(TextStable)

(***************************************************************************)
(* Properties of one whole build: both data files evaluated (under Spec).  *)
(***************************************************************************)
BuildFinished == pc = "idle" /\ done = {"servers", "serversArray"}

\* no readdirSync or readFileSync call of the build failed
NoFsFailure == \A i \in 1..Len(fsTrace) : fsTrace[i].ok

\* the readFileSync calls made for a file during the build
ReadsOf(file) ==
  SelectSeq(fsTrace, LAMBDA e : e.op = "readFileSync" /\ e.file = file)

\* the eligible files of the directory
Eligible == FilterCs([i \in 1..Len(dir) |-> dir[i].name])

\* C15 as stated: the catalog list and the catalog mapping of one build
\* describe the same records: the list has exactly one entry per record of the
\* mapping, with equal field values, also when the directory or the date
\* changes while the build runs (here: in builds where no file-system call
\* fails).
C15_ListMatchesMapping ==
  (BuildFinished /\ NoFsFailure) =>
    /\ Len(serversArray) = Len(serversData.keys)
    /\ \A k \in 1..Len(serversData.keys) :
         \E i \in 1..Len(serversArray) : serversArray[i] = serversData.vals[k]

\* C16 as stated: within one build each eligible source file is read from disk
\* exactly once (here: in builds where no file-system call fails).
C16_EachFileReadOnce ==
  (BuildFinished /\ NoFsFailure) => \A i \in 1..Len(Eligible) : Len(ReadsOf(Eligible[i])) = 1

(***************************************************************************)
(* Properties of the sentinel scans (checked under SpecSpan).              *)
(***************************************************************************)
FnLines == Split(fnInput.contents)

\* the positions (1-based) of the lines whose trimmed text is the sentinel
SentinelPositions == { i \in 1..Len(FnLines) : Trim(FnLines[i]) = Sentinel }

FirstSentinel == CHOOSE i \in SentinelPositions : \A j \in SentinelPositions : i <= j

SecondSentinel ==
  CHOOSE i \in SentinelPositions \ {FirstSentinel} :
    \A j \in SentinelPositions \ {FirstSentinel} : i <= j

IsCommentLine(l) == StartsWith(Trim(l), Slashes)

\* the comment lines strictly between the first and the second sentinel line
LinesBetweenSentinels ==
  IF Cardinality(SentinelPositions) >= 2
    THEN SelectSeq(SubSeq(FnLines, FirstSentinel + 1, SecondSentinel - 1), IsCommentLine)
    ELSE <<>>

\* the comment lines after the first sentinel line, up to the second sentinel
\* line or, when there is none, up to the end of the text
LinesOfOpenedBlock ==
  IF SentinelPositions = {} THEN <<>>
  ELSE IF Cardinality(SentinelPositions) >= 2 THEN LinesBetweenSentinels
  ELSE SelectSeq(SubSeq(FnLines, FirstSentinel + 1, Len(FnLines)), IsCommentLine)

\* C17 as stated: a line is a candidate metadata line only if it lies strictly
\* between the first and the second sentinel line and its trimmed text starts
\* with '//'; every other line contributes nothing to the metadata.
C17_CandidatesBetweenSentinels ==
  (fnDone /\ fnInput.op = "frontMatter") =>
    fnOutput = [k \in 1..Len(LinesBetweenSentinels) |->
                  StripCommentPrefix(Trim(LinesBetweenSentinels[k]))]

\* what the claim says is emitted for a candidate line with trimmed text t
EmittedFor(t, out) ==
  LET remainder == SubSeq(t, 3, Len(t))
  IN  IF remainder # <<>> /\ remainder[1] = " " THEN out = remainder
      ELSE IF Trim(remainder) # <<>> THEN out = Trim(remainder)
      ELSE out = <<>>

\* C18: for each candidate line exactly the two-character '//' marker is
\* removed; a remainder that starts with a space is emitted verbatim, otherwise
\* its trimmed form is emitted when that is non-empty, otherwise an empty line;
\* the emitted lines are as many as the candidate lines and in their order.
C18_PrefixStripped ==
  (fnDone /\ fnInput.op = "frontMatter") =>
    /\ Len(fnOutput) = Len(LinesOfOpenedBlock)
    /\ \A k \in 1..Len(fnOutput) : EmittedFor(Trim(LinesOfOpenedBlock[k]), fnOutput[k])

\* a scanned block with an indented line kept verbatim, a line whose remainder
\* was trimmed and an empty line, in this order
C18_Witness ==
  /\ fnDone
  /\ fnInput.op = "frontMatter"
  /\ Len(fnOutput) = 3
  /\ fnOutput[1] = Substring(L_item_alpha, 2)
  /\ fnOutput[2] = <<"b", ":", " ", "1">>
  /\ fnOutput[3] = <<>>

\* C19: with two sentinel lines, displayCode is the text of the lines after the
\* second one, trimmed and entity-decoded; with fewer, it is the whole text,
\* trimmed and entity-decoded.
C19_DisplayCodeAfterClosingSentinel ==
  (fnDone /\ fnInput.op = "displayCode") =>
    IF Cardinality(SentinelPositions) >= 2
      THEN fnOutput = DecodeEntities(Trim(Join(SubSeq(FnLines, SecondSentinel + 1, Len(FnLines)))))
      ELSE fnOutput = DecodeEntities(Trim(fnInput.contents))

\* a text with three sentinel lines: the third one is part of displayCode
C19_Witness ==
  /\ fnDone
  /\ fnInput.op = "displayCode"
  /\ Cardinality(SentinelPositions) = 3
  /\ SecondSentinel < Len(FnLines) - 1
  /\ Includes(fnOutput, Sentinel)
  /\ Includes(fnOutput, <<"<">>)

(***************************************************************************)
(* Further properties of the entity-decode step (checked under SpecDecode). *)
(***************************************************************************)
\* one pass over the text from left to right: an entity found in the input is
\* replaced and the scan goes on behind it, so nothing that was produced by a
\* replacement is decoded again
RECURSIVE DecodeOnePass(_)
DecodeOnePass(s) ==
  IF s = <<>> THEN <<>>
  ELSE IF StartsWith(s, EntQuot) THEN <<"\"">> \o DecodeOnePass(Substring(s, Len(EntQuot)))
  ELSE IF StartsWith(s, EntApos) THEN <<"'">> \o DecodeOnePass(Substring(s, Len(EntApos)))
  ELSE IF StartsWith(s, EntLt) THEN <<"<">> \o DecodeOnePass(Substring(s, Len(EntLt)))
  ELSE IF StartsWith(s, EntGt) THEN <<">">> \o DecodeOnePass(Substring(s, Len(EntGt)))
  ELSE IF StartsWith(s, EntAmp) THEN <<"&">> \o DecodeOnePass(Substring(s, Len(EntAmp)))
  ELSE <<Head(s)>> \o DecodeOnePass(Tail(s))

\* C20: the replacements are applied in the order &quot;, &#39;, &lt;, &gt;,
\* &amp; with &amp; last, so that one decoding never unescapes twice: every
\* '&amp;lt;' of the input becomes '&lt;' (not '<'), and likewise for the other
\* entities prefixed by '&amp;'.
C20_NoDoubleUnescape ==
  fnDone => fnOutput = DecodeOnePass(fnInput)

\* a decoded text that held '&amp;lt;' and '&gt;': '&lt;' is left in the result
\* and '&gt;' is decoded
C20_Witness ==
  /\ fnDone
  /\ Includes(fnInput, EntAmp \o <<"l", "t", ";">>)
  /\ Includes(fnInput, EntGt)
  /\ Includes(fnOutput, EntLt)
  /\ Includes(fnOutput, <<">">>)
  /\ ~Includes(fnOutput, <<"<">>)

(***************************************************************************)
(* Further properties of extractToolsFromCSharp (checked under SpecTools). *)
(***************************************************************************)
\* the descriptor of the tool declared by a tail of a generated text
TailTools(tail) ==
  IF tail = <<>> THEN <<>>
  ELSE <<[name |-> <<"A", "d", "d", "T", "i", "m", "e">>,
          description |-> <<"A", "d", "d", "s">>]>>

\* the descriptors of tools whose description is d
WithDescription(tools, d) == SelectSeq(tools, LAMBDA t : t.description = d)

\* C21: for an attribute line at index i only the lines i+1 .. i+9 are examined
\* for a method signature: a signature first appearing at line i+10 or later
\* yields no descriptor for that attribute; each attribute line emits at most
\* one descriptor, so there are never more descriptors than attribute lines,
\* and the descriptors are in the order of their attribute lines.
C21_LookaheadBounded ==
  fnDone =>
    \A d \in ToolDescriptions, gap \in 0..MaxGap, m \in ToolMethods, tail \in ToolTails :
      fnInput = ToolText(d, gap, m, tail) =>
        /\ gap + 1 >= 10 => fnOutput = TailTools(tail)
        /\ Len(WithDescription(fnOutput, d)) <= 1
        /\ Len(fnOutput) <= 1 + Len(TailTools(tail))
        /\ Len(fnOutput) = 2 => (fnOutput[1].description = d /\ <<fnOutput[2]>> = TailTools(tail))

\* the declaration stood at line i+10: nothing was emitted for the first
\* attribute line, and the tool of the second attribute line was emitted
C21_Witness ==
  /\ fnDone
  /\ \E d \in ToolDescriptions, m \in ToolMethods, tail \in ToolTails :
       /\ fnInput = ToolText(d, 9, m, tail)
       /\ m.name = <<"D", "o", "X">>
       /\ tail # <<>>
  /\ Len(fnOutput) = 1
  /\ fnOutput = TailTools(<<L_attr_add, L_method_add>>)

\* C22: an attribute line without a match of the Description pattern, or
\* without a matching method signature in its lookahead window, produces no
\* descriptor and no error, and the occurrences after it are still processed.
C22_UnmatchedOccurrenceSkipped ==
  fnDone =>
    /\ \A bad \in UnmatchedAttributeLines, tail \in ToolTails :
         fnInput = SkippedToolText(bad, tail) => fnOutput = TailTools(tail)
    /\ \A d \in ToolDescriptions, m \in ToolMethods, tail \in ToolTails :
         fnInput = ToolText(d, MaxGap, m, tail) => fnOutput = TailTools(tail)

\* an attribute line with an empty description was skipped and the tool after
\* it was emitted
C22_Witness ==
  /\ fnDone
  /\ \E bad \in UnmatchedAttributeLines :
       /\ Includes(bad, TextDescriptionOpen \o <<"\"", "\"">>)
       /\ fnInput = SkippedToolText(bad, <<L_attr_add, L_method_add>>)
  /\ fnOutput = TailTools(<<L_attr_add, L_method_add>>)

\* C27 as stated: every descriptor pairs a description with its own method: the
\* name of the descriptor emitted for an attribute line is taken from the first
\* line after it that contains 'public static' and '(', and never from a line
\* located after a later attribute line.
C27_DescriptorNamesOwnMethod ==
  fnDone =>
    \A d \in ToolDescriptions, gap \in 0..MaxGap, m \in ToolMethods, tail \in ToolTails :
      fnInput = ToolText(d, gap, m, tail) =>
        \A k \in 1..Len(fnOutput) : fnOutput[k].description = d => fnOutput[k].name = m.name

(***************************************************************************)
(* Properties of the defaulted fields, continued (checked under SpecRecord). *)
(***************************************************************************)
\* C23 as stated: the envVars field of every record is a sequence: the empty
\* sequence when the front matter omits envVars or gives it no value, and the
\* decoded sequence otherwise.
C23_EnvVarsIsSequence ==
  fnDone =>
    /\ IsArray(fnOutput.envVars)
    /\ (~HasMember(FnMetadata, K_envVars) \/ Member(FnMetadata, K_envVars) = Null)
         => fnOutput.envVars = Arr(<<>>)
    /\ IsArray(Member(FnMetadata, K_envVars)) => fnOutput.envVars = Member(FnMetadata, K_envVars)

\* C30: the code field is the input text unchanged, and the code, displayCode
\* and tools fields depend only on the text: they are the same whatever the
\* metadata decodes to, whether or not the decode fails, and whatever the file
\* name and the date are.
C30_CodeFieldsDependOnTextOnly ==
  fnDone =>
    /\ fnOutput.code = fnInput.contents
    /\ fnOutput.displayCode = extractCodeWithoutFrontMatter(fnInput.contents)
    /\ fnOutput.tools = extractToolsFromCSharp(fnInput.contents)
    /\ \A file \in FileNames, now1, now2 \in 0..MaxDay :
         /\ parseCSharpMcpServer(fnInput.contents, file, now1, now2).code = fnOutput.code
         /\ parseCSharpMcpServer(fnInput.contents, file, now1, now2).displayCode
              = fnOutput.displayCode
         /\ parseCSharpMcpServer(fnInput.contents, file, now1, now2).tools = fnOutput.tools

\* a parsed file whose metadata failed to decode and whose body declares a tool
C30_Witness ==
  /\ fnDone
  /\ DecodeFrontMatter(fnInput.contents).failed
  /\ fnOutput.code = fnInput.contents
  /\ fnOutput.code # fnOutput.displayCode
  /\ fnOutput.tools = TailTools(<<L_attr_add, L_method_add>>)

(***************************************************************************)
(* Properties of the scan, continued (checked under Spec).                 *)
(***************************************************************************)
\* C28 as stated: every mapping key k is the id of the record stored under k,
\* with the same value and the same type.
C28_KeyIsRecordId ==
  pc = "loop" =>
    \A i \in 1..Len(servers.keys) : servers.vals[i].id = Str(servers.keys[i])

EndsWithCs(f) == Len(f) > Len(DotCs) /\ SubSeq(f, Len(f) - Len(DotCs) + 1, Len(f)) = DotCs

\* the names of the directory entries with the extension '.cs', in listing order
CsEntries == SelectSeq([i \in 1..Len(dir) |-> dir[i].name], EndsWithCs)

\* no file-system call of the scan run by c failed
ScanSucceeded(c) == \A i \in 1..Len(FsCallsBy(c)) : FsCallsBy(c)[i].ok

\* C24: scanDirectory processes exactly the directory entries whose extension is
\* '.cs': every record of the returned mapping was built from such a file,
\* every such file is read and parsed, and no other entry is ever read.
C24_ExactlyCsFilesProcessed ==
  /\ \A i \in 1..Len(fsTrace) :
       fsTrace[i].op = "readFileSync" => EndsWithCs(fsTrace[i].file)
  /\ \A c \in done :
       /\ ResultKeys(c) \subseteq { ResolvedKey(CsEntries[i]) : i \in 1..Len(CsEntries) }
       /\ ScanSucceeded(c) =>
            /\ [i \in 1..Len(FilesReadBy(c)) |-> FilesReadBy(c)[i].file] = CsEntries
            /\ ResultKeys(c) = { ResolvedKey(CsEntries[i]) : i \in 1..Len(CsEntries) }

\* a directory with a '.cs' file and another entry was scanned: one file was
\* read and the mapping has its record
C24_Witness ==
  /\ "servers" \in done
  /\ ScanSucceeded("servers")
  /\ Len(dir) = 2
  /\ Len(CsEntries) = 1
  /\ Len(FilesReadBy("servers")) = 1
  /\ Len(serversData.keys) = 1

\* the files of the readFileSync calls of the scan run by c, in call order
ReadOrder(c) ==
  [i \in 1..(Len(FsCallsBy(c)) - 1) |-> FsCallsBy(c)[i + 1].file]

\* C25: files are processed strictly one after the other in directory-listing
\* order: the directory is listed once, before any file is read, and the read,
\* the parse and the insertion of a file all happen before the next file is read.
C25_SequentialInListingOrder ==
  /\ \A c \in {"servers", "serversArray"} :
       FsCallsBy(c) # <<>> =>
         /\ FsCallsBy(c)[1].op = "readdirSync"
         /\ \A i \in 2..Len(FsCallsBy(c)) : FsCallsBy(c)[i].op = "readFileSync"
         /\ Len(ReadOrder(c)) <= Len(CsEntries)
         /\ ReadOrder(c) = SubSeq(CsEntries, 1, Len(ReadOrder(c)))
  /\ pc = "loop" =>
       /\ Len(ReadOrder(caller)) = idx - 1
       /\ { servers.keys[i] : i \in 1..Len(servers.keys) }
            = { ResolvedKey(CsEntries[i]) : i \in 1..(idx - 1) }

\* two files were read one after the other, each inserted before the next read
C25_Witness ==
  /\ pc = "loop"
  /\ idx = 3
  /\ Len(FsCallsBy(caller)) = 3
  /\ ReadOrder(caller) = CsEntries
  /\ Len(servers.keys) = 2

\* the files the scan run by c read whose YAML decode failed
DecodeFailedBy(c) ==
  { i \in 1..Len(FilesReadBy(c)) : DecodeFrontMatter(Contents(FilesReadBy(c)[i].file)).failed }

\* the number of files the scan run by c handled before its first failing step,
\* a failed read or a failed decode
BeforeFirstFailure(c) ==
  IF DecodeFailedBy(c) # {}
    THEN (CHOOSE i \in DecodeFailedBy(c) : \A j \in DecodeFailedBy(c) : i <= j) - 1
  ELSE Len(FilesReadBy(c))

\* C26 as stated: scanDirectory never raises, and whichever step fails for the
\* k-th file, its read or its parse, the returned mapping holds the records of
\* the files before it only: the failing file and the files after it have no entry.
C26_AnyFailureStopsScan ==
  \A c \in done :
    (FailedRead(c) \/ DecodeFailedBy(c) # {}) =>
      /\ c \notin thrown
      /\ ResultKeys(c) = { ResolvedKey(CsEntries[i]) : i \in 1..BeforeFirstFailure(c) }

\* C26: scanDirectory never raises. A failed read of the k-th file ends the
\* scan: it is the last file-system call, and the returned mapping holds
\* the records of the k-1 files before it and nothing else. A failed parse does
\* not end the scan: the file gets its entry and the files after it are read.
C26_ReadFailureEndsScanParseFailureDoesNot ==
  /\ thrown = {}
  /\ \A c \in done :
       /\ FailedRead(c) =>
            /\ ~FsCallsBy(c)[Len(FsCallsBy(c))].ok
            /\ \A i \in 1..(Len(FsCallsBy(c)) - 1) : FsCallsBy(c)[i].ok
            /\ FsCallsBy(c)[Len(FsCallsBy(c))].file = CsEntries[Len(FilesReadBy(c)) + 1]
            /\ ResultKeys(c) = { ResolvedKey(CsEntries[i]) : i \in 1..Len(FilesReadBy(c)) }
       /\ \A i \in DecodeFailedBy(c) :
            /\ ResolvedKey(FilesReadBy(c)[i].file) \in ResultKeys(c)
            /\ ~FailedRead(c) => Len(FilesReadBy(c)) = Len(CsEntries)

\* a scan handled a file whose decode failed, went on to the next file, and the
\* read of that file failed: the first file alone is in the returned mapping
C26_Witness ==
  /\ "servers" \in done
  /\ FailedRead("servers")
  /\ Len(CsEntries) = 2
  /\ DecodeFailedBy("servers") = {1}
  /\ Len(serversData.keys) = 1

\* the index (0-based) of the closing sentinel line extractCodeWithoutFrontMatter
\* finds in the text, -1 when it finds none
FnCodeSpanEnd == FindFrontMatterEnd(FnLines, 0, FALSE)

\* the lines extractCodeWithoutFrontMatter keeps as displayCode (1-based positions)
FnDisplayPositions ==
  IF FnCodeSpanEnd >= 0 THEN (FnCodeSpanEnd + 2)..Len(FnLines) ELSE 1..Len(FnLines)

\* C29: the metadata scan of parseCSharpMcpServer and the scan of
\* extractCodeWithoutFrontMatter agree on every text: when the first takes
\* candidate metadata lines the second has located the same opening and closing
\* sentinel lines, and the candidate lines all lie outside displayCode.
C29_SpanDetectorsAgree ==
  (fnDone /\ fnInput.op = "frontMatter" /\ fnOutput # <<>>) =>
    /\ FnCodeSpanEnd >= 0
    /\ FnCodeSpanEnd + 1 = SecondSentinel
    /\ Len(fnOutput) = Len(SelectSeq(SubSeq(FnLines, FirstSentinel + 1, FnCodeSpanEnd), IsCommentLine))
    /\ \A i \in FnDisplayPositions : i > FirstSentinel => ~IsCommentLine(FnLines[i]) \/ i > SecondSentinel

=============================================================================
